---- MODULE Spec2Model ----
(***************************************************************************)
(* Model of blur/scripts/plot_blur.py: the runs.csv pipeline of main()     *)
(* (load_runs, aggregate, agg_plot.csv, save_plots, write_summary) and the *)
(* hotspot digest write_profile_summary.                                   *)
(*                                                                         *)
(* A float is a pair <<n, d>>: the non-negative rational n/d in lowest     *)
(* terms when d > 0, NaN == <<0, 0>>, +inf == <<1, 0>>.  A standard        *)
(* deviation or a ci95 half-width s is carried as its square s*s, which    *)
(* is rational (NaN, 0 and the order of values are the same for s and      *)
(* s*s).                                                                   *)
(***************************************************************************)
EXTENDS Integers, Sequences, FiniteSets, TLC

\* Largest number of data rows of runs.csv.
MaxRows == 3
\* Largest number of data rows of a hotspot CSV.
MaxHot == 2
\* topn of write_profile_summary.
TopN == 15

VARIABLES csv, pc, err, df, agg, agg_csv, plots, sp, summary, gp, cg, profile

vars == <<csv, pc, err, df, agg, agg_csv, plots, sp, summary, gp, cg, profile>>

(***************************** float arithmetic ****************************)
NaN == <<0, 0>>
Inf == <<1, 0>>
Zero == <<0, 1>>
One == <<1, 1>>

RECURSIVE GCD(_, _)
GCD(a, b) == IF b = 0 THEN a ELSE GCD(b, a % b)

Rat(n, d) == LET g == GCD(n, d) IN <<n \div g, d \div g>>

IsFinite(x) == x[2] # 0

FAdd(a, b) ==
  IF a = NaN \/ b = NaN THEN NaN
  ELSE IF a = Inf \/ b = Inf THEN Inf
  ELSE Rat(a[1] * b[2] + b[1] * a[2], a[2] * b[2])

FMul(a, b) ==
  IF a = NaN \/ b = NaN THEN NaN
  ELSE IF a = Inf \/ b = Inf THEN (IF a = Zero \/ b = Zero THEN NaN ELSE Inf)
  ELSE Rat(a[1] * b[1], a[2] * b[2])

\* a / b as numpy divides float64 columns: x/0 is inf, 0/0 and inf/inf are NaN.
FDiv(a, b) ==
  IF a = NaN \/ b = NaN THEN NaN
  ELSE IF b = Inf THEN (IF a = Inf THEN NaN ELSE Zero)
  ELSE IF a = Inf THEN Inf
  ELSE IF b[1] = 0 THEN (IF a[1] = 0 THEN NaN ELSE Inf)
  ELSE Rat(a[1] * b[2], a[2] * b[1])

\* a < b on floats; every comparison with NaN is false.
FLess(a, b) ==
  /\ a # NaN /\ b # NaN /\ a # b
  /\ a # Inf
  /\ (b = Inf \/ a[1] * b[2] < b[1] * a[2])

\* Sort order of a float column: ascending, NaN last.
FBefore(a, b) == IF a = NaN THEN FALSE ELSE IF b = NaN THEN TRUE ELSE FLess(a, b)

\* Lexicographic order of the strings the model uses.
StrRank(s) ==
  CASE s = "a" -> 0
    [] s = "b" -> 1
    [] s = "blur" -> 2
    [] s = "blur_par" -> 3
    [] s = "parallel (blur_par)" -> 4
    [] s = "sequential (blur)" -> 5

(****************************** stats helpers ******************************)
\* ci95(std, n), squared: (1.96 * std / sqrt(max(n, 1)))^2.
ci95(std, n) ==
  LET m == IF n > 1 THEN n ELSE 1
  IN FDiv(FMul(Rat(38416, 10000), std), Rat(m, 1))

FillNa0(x) == IF x = NaN THEN Zero ELSE x

RECURSIVE SumSeq(_)
SumSeq(s) == IF s = <<>> THEN Zero ELSE FAdd(Head(s), SumSeq(Tail(s)))

NotNa(x) == x # NaN

\* Series.mean over the present values; NaN when none is present.
Mean(s) ==
  LET p == SelectSeq(s, NotNa)
  IN IF p = <<>> THEN NaN ELSE FDiv(SumSeq(p), Rat(Len(p), 1))

\* Series.std (ddof = 1) over the present values, squared; NaN below two values.
Std(s) ==
  LET p == SelectSeq(s, NotNa)
      k == Len(p)
      sq == [i \in 1..k |-> FMul(p[i], p[i])]
      s1 == SumSeq(p)
      s2 == SumSeq(sq)
      \* (k * s2 - s1^2) / (k * (k - 1)), numerator over the common denominator
      a == FMul(Rat(k, 1), s2)
      b == FMul(s1, s1)
      num == a[1] * b[2] - b[1] * a[2]
      den == a[2] * b[2] * k * (k - 1)
  IN IF k < 2 THEN NaN ELSE Rat(num, den)

(******************************** runs.csv *********************************)
\* pd.to_numeric(errors="coerce") on one cell.
ToNumeric(s) ==
  CASE s = "0" -> <<0, 1>>
    [] s = "1" -> <<1, 1>>
    [] s = "2" -> <<2, 1>>
    [] s = "3" -> <<3, 1>>
    [] s = "5" -> <<5, 1>>
    [] OTHER -> NaN

RawRow(app, image, radius, threads, rep, elapsed_s, max_rss_kb) ==
  [app |-> app, image |-> image, radius |-> radius, threads |-> threads,
   rep |-> rep, elapsed_s |-> elapsed_s, max_rss_kb |-> max_rss_kb]

\* The data rows a runs.csv is made of.
RowPool ==
  { RawRow("blur", "a", "3", "1", "1", "2", "5"),
    RawRow("blur", "a", "3", "0", "2", "x", "x"),
    RawRow("blur", "a", "5", "1", "1", "1", "5"),
    RawRow("blur_par", "a", "3", "1", "1", "1", "5"),
    RawRow("blur_par", "a", "3", "1", "x", "0", "5"),
    RawRow("blur_par", "a", "3", "2", "1", "1", "3"),
    RawRow("blur_par", "a", "3", "2", "2", "0", "x"),
    RawRow("blur_par", "a", "3", "x", "1", "1", "5"),
    RawRow("blur_par", "a", "x", "1", "1", "1", "5"),
    RawRow("blur_par", "a", "3", "2", "3", "x", "5"),
    RawRow("blur_par", "a", "3", "0", "1", "1", "5"),
    RawRow("blur_par", "b", "3", "2", "1", "1", "5") }

\* Which engine column the header has: "app", the legacy "which", or neither.
Headers == {"app", "which", "none"}

OtherColumns == {"image", "radius", "threads", "rep", "elapsed_s", "max_rss_kb"}

\* The row as a file with that header holds it: the engine cell sits in the
\* column "app" or "which", or is not there.
Shape(header, r) ==
  IF header = "app" THEN r
  ELSE IF header = "which"
  THEN [c \in OtherColumns \cup {"which"} |-> IF c = "which" THEN r.app ELSE r[c]]
  ELSE [c \in OtherColumns |-> r[c]]

TEffective(app, threads) == IF app = "blur_par" THEN threads ELSE One

AppLabel(app) == IF app = "blur_par" THEN "parallel (blur_par)" ELSE "sequential (blur)"

\* One row of load_runs: df["app"] is df["which"] when "app" is absent.
LoadRow(r) ==
  LET app == IF "app" \in DOMAIN r THEN r.app ELSE r.which
      threads == ToNumeric(r.threads)
  IN [app |-> app, image |-> r.image,
      radius |-> ToNumeric(r.radius),
      threads |-> threads,
      rep |-> ToNumeric(r.rep),
      elapsed_s |-> ToNumeric(r.elapsed_s),
      max_rss_kb |-> ToNumeric(r.max_rss_kb),
      t_effective |-> TEffective(app, threads),
      app_label |-> AppLabel(app)]

LoadFrame(rows) == [i \in 1..Len(rows) |-> LoadRow(rows[i])]

(******************************** aggregate ********************************)
Key(r) == <<r.image, r.radius, r.app, r.app_label, r.t_effective>>

\* groupby(keys) with the default dropna=True: keys holding NaN are dropped.
GroupKeysDropNa(d) ==
  { Key(d[i]) : i \in { j \in 1..Len(d) : d[j].radius # NaN /\ d[j].t_effective # NaN } }

\* groupby(keys, dropna=False): every key of the frame, NaN included.
GroupKeys(d) == { Key(d[i]) : i \in 1..Len(d) }

\* Sorted group order: lexicographic on the key columns.
KeyBefore(k, o) ==
  \/ StrRank(k[1]) < StrRank(o[1])
  \/ /\ k[1] = o[1]
     /\ \/ FBefore(k[2], o[2])
        \/ /\ k[2] = o[2]
           /\ \/ StrRank(k[3]) < StrRank(o[3])
              \/ /\ k[3] = o[3]
                 /\ \/ StrRank(k[4]) < StrRank(o[4])
                    \/ (k[4] = o[4] /\ FBefore(k[5], o[5]))

RECURSIVE SortKeys(_)
SortKeys(S) ==
  IF S = {} THEN <<>>
  ELSE LET m == CHOOSE k \in S : \A o \in S \ {k} : KeyBefore(k, o)
       IN <<m>> \o SortKeys(S \ {m})

Members(d, k) == SelectSeq(d, LAMBDA r : Key(r) = k)

\* ("elapsed_s", "count"): only the rows whose elapsed_s is present.
GroupSizeCount(rows) == Len(SelectSeq(rows, LAMBDA r : r.elapsed_s # NaN))

\* ("elapsed_s", "size"): the rows of the group, missing values included.
GroupSize(rows) == Len(rows)

Column(rows, c) == [i \in 1..Len(rows) |-> rows[i][c]]

AggRow(d, k) ==
  LET rows == Members(d, k)
      runs == GroupSize(rows)
      estd == Std(Column(rows, "elapsed_s"))
      rstd == Std(Column(rows, "max_rss_kb"))
  IN [image |-> k[1], radius |-> k[2], app |-> k[3], app_label |-> k[4],
      t_effective |-> k[5],
      runs |-> runs,
      elapsed_mean |-> Mean(Column(rows, "elapsed_s")),
      elapsed_std |-> estd,
      rss_kb_mean |-> Mean(Column(rows, "max_rss_kb")),
      rss_kb_std |-> rstd,
      elapsed_ci95 |-> ci95(FillNa0(estd), runs),
      rss_kb_ci95 |-> ci95(FillNa0(rstd), runs)]

aggregate(d) ==
  LET ks == SortKeys(GroupKeys(d))
  IN [i \in 1..Len(ks) |-> AggRow(d, ks[i])]

(*********************** build_speedup_and_efficiency **********************)
IsBaseCandidate(r) ==
  \/ (r.app = "blur_par" /\ r.t_effective = One)
  \/ (r.app = "blur" /\ r.t_effective = One)

IsPar(r) == r.app = "blur_par"

NotPar(r) == r.app # "blur_par"

\* The sort with the key inverted: sequential rows first.
SortBaseCandidatesSeqFirst(s) == SelectSeq(s, NotPar) \o SelectSeq(s, IsPar)

\* sort_values(by=["app"], key=(s != "blur_par").astype(int)): blur_par rows first.
SortBaseCandidates(s) == SelectSeq(s, IsPar) \o SelectSeq(s, NotPar)

RECURSIVE DropDup(_, _)
DropDup(s, seen) ==
  IF s = <<>> THEN <<>>
  ELSE LET k == <<Head(s).image, Head(s).radius>>
       IN IF k \in seen THEN DropDup(Tail(s), seen)
          ELSE <<Head(s)>> \o DropDup(Tail(s), seen \cup {k})

RECURSIVE Reverse(_)
Reverse(s) == IF s = <<>> THEN <<>> ELSE Reverse(Tail(s)) \o <<Head(s)>>

\* drop_duplicates(subset=["image","radius"], keep="last")
DropDuplicatesKeepLast(s) == Reverse(DropDup(Reverse(s), {}))

\* drop_duplicates(subset=["image","radius"], keep="first")
DropDuplicates(s) == DropDup(s, {})

\* The baseline lookup: one base_time per (image, radius).
BaseTable(a) ==
  LET b == DropDuplicates(SortBaseCandidates(SelectSeq(a, IsBaseCandidate)))
  IN [i \in 1..Len(b) |->
        [image |-> b[i].image, radius |-> b[i].radius, base_time |-> b[i].elapsed_mean]]

\* t_effective.replace(0, np.nan)
Replace0(t) == IF t = Zero THEN NaN ELSE t

Enrich(r, bt) ==
  LET speedup == FDiv(bt, r.elapsed_mean)
  IN [image |-> r.image, radius |-> r.radius, app |-> r.app, app_label |-> r.app_label,
      t_effective |-> r.t_effective, runs |-> r.runs,
      elapsed_mean |-> r.elapsed_mean, elapsed_std |-> r.elapsed_std,
      rss_kb_mean |-> r.rss_kb_mean, rss_kb_std |-> r.rss_kb_std,
      elapsed_ci95 |-> r.elapsed_ci95, rss_kb_ci95 |-> r.rss_kb_ci95,
      base_time |-> bt,
      speedup |-> speedup,
      efficiency |-> FDiv(speedup, Replace0(r.t_effective))]

\* One left row of merge(how="inner"): rows without a base row are dropped.
MergeRowInner(r, base) ==
  LET m == SelectSeq(base, LAMBDA b : b.image = r.image /\ b.radius = r.radius)
  IN [j \in 1..Len(m) |-> Enrich(r, m[j].base_time)]

\* One left row of merge(how="left"): a row per matching base row, or one row
\* with a missing base_time when none matches.
MergeRow(r, base) ==
  LET m == SelectSeq(base, LAMBDA b : b.image = r.image /\ b.radius = r.radius)
  IN IF m = <<>> THEN <<Enrich(r, NaN)>>
     ELSE [j \in 1..Len(m) |-> Enrich(r, m[j].base_time)]

RECURSIVE Merge(_, _)
Merge(a, base) ==
  IF a = <<>> THEN <<>> ELSE MergeRow(Head(a), base) \o Merge(Tail(a), base)

build_speedup_and_efficiency(a) == Merge(a, BaseTable(a))

(******************************** save_plots *******************************)
\* The figures save_plots writes for one image.
PlotsOf(a, img) ==
  LET sub == SelectSeq(a, LAMBDA r : r.image = img)
      par == SelectSeq(build_speedup_and_efficiency(sub), IsPar)
  IN {<<"elapsed_vs_threads", img>>}
     \cup (IF par # <<>>
           THEN {<<"speedup_vs_threads", img>>, <<"efficiency_vs_threads", img>>}
           ELSE {})
     \cup (IF \E i \in 1..Len(sub) : sub[i].rss_kb_mean # NaN
           THEN {<<"rss_vs_threads", img>>}
           ELSE {})

save_plots(a) == UNION { PlotsOf(a, a[i].image) : i \in 1..Len(a) }

(******************************* write_summary *****************************)
\* round(x, 6): to the nearest multiple of 10^-6, halves to even.
Round6(x) ==
  IF ~IsFinite(x) THEN x
  ELSE LET s == x[1] * 1000000
           q == s \div x[2]
           r == s % x[2]
           up == (2 * r > x[2]) \/ (2 * r = x[2] /\ q % 2 = 1)
       IN Rat(IF up THEN q + 1 ELSE q, 1000000)

\* int(x) of a finite float.
ToInt(x) == x[1] \div x[2]

\* agg.groupby(["image","radius"]): NaN keys are dropped, groups come sorted.
SummaryKeys(a) ==
  { <<a[i].image, a[i].radius>> : i \in { j \in 1..Len(a) : a[j].radius # NaN } }

PairBefore(k, o) ==
  \/ StrRank(k[1]) < StrRank(o[1])
  \/ (k[1] = o[1] /\ FBefore(k[2], o[2]))

RECURSIVE SortPairs(_)
SortPairs(S) ==
  IF S = {} THEN <<>>
  ELSE LET m == CHOOSE k \in S : \A o \in S \ {k} : PairBefore(k, o)
       IN <<m>> \o SortPairs(S \ {m})

AppBefore(x, y) == StrRank(x.app) < StrRank(y.app)

\* grp[grp["t_effective"]==1].sort_values("app")
BaseRows(a, k) ==
  SortSeq(SelectSeq(a, LAMBDA r : r.image = k[1] /\ r.radius = k[2] /\ r.t_effective = One),
          AppBefore)

\* Series.idxmin over elapsed_mean: the first smallest present value; 0 when
\* every value is missing (the lookup of the row then raises).
IdxMin(s) ==
  LET P == { i \in 1..Len(s) : s[i].elapsed_mean # NaN }
  IN IF P = {} THEN 0
     ELSE CHOOSE i \in P :
            \A j \in P : /\ ~FLess(s[j].elapsed_mean, s[i].elapsed_mean)
                         /\ (j < i => FLess(s[i].elapsed_mean, s[j].elapsed_mean))

\* One pass of the loop of write_summary, for the group k of (image, radius).
SummaryEntry(a, s, k) ==
  LET base_rows == BaseRows(a, k)
      base_row == base_rows[1]
      base_time == base_row.elapsed_mean
      par_grp == SelectSeq(s, LAMBDA r : r.image = k[1] /\ r.radius = k[2] /\ IsPar(r))
      b == IdxMin(par_grp)
      best == par_grp[b]
  IN IF base_rows = <<>> THEN [kind |-> "skip"]
     ELSE IF par_grp # <<>>
     THEN IF b = 0 THEN [kind |-> "KeyError"]
          ELSE IF ~IsFinite(best.t_effective) THEN [kind |-> "ValueError"]
          ELSE [kind |-> "row",
                row |-> [image |-> k[1],
                         radius |-> ToInt(k[2]),
                         baseline_prog |-> base_row.app_label,
                         baseline_time_s |-> Round6(base_time),
                         best_threads |-> ToInt(best.t_effective),
                         best_time_s |-> Round6(best.elapsed_mean),
                         best_speedup_x |-> Round6(best.speedup),
                         efficiency_at_best |-> Round6(best.efficiency)]]
     ELSE [kind |-> "row",
           row |-> [image |-> k[1],
                    radius |-> ToInt(k[2]),
                    baseline_prog |-> base_row.app_label,
                    baseline_time_s |-> Round6(base_time),
                    best_threads |-> 1,
                    best_time_s |-> Round6(base_time),
                    best_speedup_x |-> One,
                    efficiency_at_best |-> One]]

SummaryEntries(a, s) ==
  LET ks == SortPairs(SummaryKeys(a))
  IN [i \in 1..Len(ks) |-> SummaryEntry(a, s, ks[i])]

SummaryRowBefore(x, y) ==
  \/ StrRank(x.image) < StrRank(y.image)
  \/ (x.image = y.image /\ x.radius < y.radius)

\* The outcome of write_summary: the exception that ends it, or the rows of
\* summary.csv.  Sorting the frame of an empty row list raises KeyError.
SummaryOutcome(a, s) ==
  LET es == SummaryEntries(a, s)
      bad == { i \in 1..Len(es) : es[i].kind \in {"KeyError", "ValueError"} }
      first == CHOOSE i \in bad : \A j \in bad : i <= j
      kept == SelectSeq(es, LAMBDA e : e.kind = "row")
      rows == [i \in 1..Len(kept) |-> kept[i].row]
  IN IF bad # {} THEN [err |-> es[first].kind, rows |-> <<>>]
     ELSE IF rows = <<>> THEN [err |-> "KeyError", rows |-> <<>>]
     ELSE [err |-> "", rows |-> SortSeq(rows, SummaryRowBefore)]

(*************************** write_profile_summary *************************)
HotRow(function, percent, cost) ==
  [function |-> function, percent |-> percent, cost |-> cost]

\* The rows a hotspot CSV is made of.
HotPool ==
  { HotRow("blur", 60, 600), HotRow("main", 30, 300), HotRow("read", 30, 200) }

Take(s, n) == IF Len(s) <= n THEN s ELSE SubSeq(s, 1, n)

Min2(x, y) == IF x <= y THEN x ELSE y

\* pd.read_csv(f).head(min(topn, <lines of f>)): a header line and the data rows.
HeadRows(f, topn) == Take(f.rows, Min2(topn, Len(f.rows) + 1))

Section(title, f, topn) ==
  IF f.exists
  THEN <<[kind |-> "title", text |-> title]>>
       \o [i \in 1..Len(HeadRows(f, topn)) |->
             [kind |-> "row", percent |-> HeadRows(f, topn)[i].percent,
              cost |-> HeadRows(f, topn)[i].cost,
              function |-> HeadRows(f, topn)[i].function]]
       \o <<[kind |-> "blank"]>>
  ELSE <<>>

ProfileLines(g, c, topn) ==
  Section("== gprof (flat profile, self time) ==", g, topn)
  \o Section("== Callgrind (self Ir) ==", c, topn)

(********************************* actions *********************************)
NoFile == [exists |-> FALSE, rows |-> <<>>]

Init ==
  /\ csv \in [header : Headers, rows : {<<>>}]
  /\ pc = "input"
  /\ err = ""
  /\ df = <<>>
  /\ agg = <<>>
  /\ agg_csv = NoFile
  /\ plots = {}
  /\ sp = <<>>
  /\ summary = NoFile
  /\ gp = NoFile
  /\ cg = NoFile
  /\ profile = NoFile

\* The bench script appends one row to runs.csv.
AddRow ==
  /\ pc = "input"
  /\ Len(csv.rows) < MaxRows
  /\ \E r \in RowPool : csv' = [csv EXCEPT !.rows = Append(@, Shape(csv.header, r))]
  /\ UNCHANGED <<pc, err, df, agg, agg_csv, plots, sp, summary, gp, cg, profile>>

\* load_runs: without an "app" or a "which" column the load raises.
load_runs ==
  /\ pc = "input"
  /\ IF csv.header = "none"
     THEN /\ pc' = "load_failed"
          /\ err' = "ValueError"
          /\ df' = df
     ELSE /\ pc' = "loaded"
          /\ err' = err
          /\ df' = LoadFrame(csv.rows)
  /\ UNCHANGED <<csv, agg, agg_csv, plots, sp, summary, gp, cg, profile>>

Aggregate ==
  /\ pc = "loaded"
  /\ agg' = aggregate(df)
  /\ pc' = "aggregated"
  /\ UNCHANGED <<csv, err, df, agg_csv, plots, sp, summary, gp, cg, profile>>

\* agg.to_csv(agg_csv)
WriteAggCsv ==
  /\ pc = "aggregated"
  /\ agg_csv' = [exists |-> TRUE, rows |-> agg]
  /\ pc' = "agg_written"
  /\ UNCHANGED <<csv, err, df, agg, plots, sp, summary, gp, cg, profile>>

SavePlots ==
  /\ pc = "agg_written"
  /\ plots' = save_plots(agg)
  /\ pc' = "plotted"
  /\ UNCHANGED <<csv, err, df, agg, agg_csv, sp, summary, gp, cg, profile>>

WriteSummary ==
  /\ pc = "plotted"
  /\ sp' = build_speedup_and_efficiency(agg)
  /\ LET out == SummaryOutcome(agg, sp')
     IN IF out.err # ""
        THEN /\ pc' = "summary_failed"
             /\ err' = out.err
             /\ summary' = summary
        ELSE /\ pc' = "summarized"
             /\ err' = err
             /\ summary' = [exists |-> TRUE, rows |-> out.rows]
  /\ UNCHANGED <<csv, df, agg, agg_csv, plots, gp, cg, profile>>

WriteProfileSummary ==
  /\ pc = "summarized"
  /\ LET lines == ProfileLines(gp, cg, TopN)
     IN profile' = IF lines # <<>> THEN [exists |-> TRUE, rows |-> lines] ELSE profile
  /\ pc' = "done"
  /\ UNCHANGED <<csv, err, df, agg, agg_csv, plots, sp, summary, gp, cg>>

Next ==
  \/ AddRow
  \/ load_runs
  \/ Aggregate
  \/ WriteAggCsv
  \/ SavePlots
  \/ WriteSummary
  \/ WriteProfileSummary

Spec == Init /\ [][Next]_vars
(************************ write_profile_summary alone **********************)
SeqsUpTo(S, n) == UNION { [1..k -> S] : k \in 0..n }

HotFiles == {NoFile} \cup [exists : {TRUE}, rows : SeqsUpTo(HotPool, MaxHot)]

\* A runs.csv whose pipeline reaches write_profile_summary.
SampleCsv ==
  [header |-> "app",
   rows |-> <<RawRow("blur", "a", "3", "1", "1", "2", "5"),
              RawRow("blur_par", "a", "3", "1", "1", "1", "5")>>]

\* main() just before write_profile_summary, with any hotspot CSVs in out_dir.
ProfileInit ==
  /\ csv = SampleCsv
  /\ pc = "summarized"
  /\ err = ""
  /\ df = LoadFrame(csv.rows)
  /\ agg = aggregate(df)
  /\ agg_csv = [exists |-> TRUE, rows |-> agg]
  /\ plots = save_plots(agg)
  /\ sp = build_speedup_and_efficiency(agg)
  /\ summary = [exists |-> TRUE, rows |-> SummaryOutcome(agg, sp).rows]
  /\ gp \in HotFiles
  /\ cg \in HotFiles
  /\ profile = NoFile

ProfileNext == WriteProfileSummary

ProfileSpec == ProfileInit /\ [][ProfileNext]_vars

(********************************* claims **********************************)
Aggregated == pc \in {"aggregated", "agg_written", "plotted", "summarized",
                      "summary_failed", "done"}

Derived == pc \in {"summarized", "summary_failed", "done"}

Summarized == pc \in {"summarized", "done"}

Key4(r) == <<r.image, r.radius, r.app, r.t_effective>>

SameImageRadius(r, q) == r.image = q.image /\ r.radius = q.radius

\* The parallel groups at thread count 1 / the sequential groups of r's (image, radius).
Par1Of(a, r) ==
  SelectSeq(a, LAMBDA q : SameImageRadius(q, r) /\ q.app = "blur_par" /\ q.t_effective = One)

SeqOf(a, r) == SelectSeq(a, LAMBDA q : SameImageRadius(q, r) /\ q.app = "blur")

\* C1: for every (image, radius) base_time is the elapsed_mean of the parallel
\* group at thread count 1 when it exists, even if a sequential group exists
\* too; otherwise that of the sequential group; with neither, base_time,
\* speedup and efficiency are absent on every row of that (image, radius).
C1_BaselineSelection ==
  Derived =>
    \A i \in 1..Len(agg) :
      /\ \E j \in 1..Len(sp) : Key4(sp[j]) = Key4(agg[i])
      /\ \A j \in 1..Len(sp) :
           Key4(sp[j]) = Key4(agg[i]) =>
             IF Par1Of(agg, agg[i]) # <<>>
             THEN sp[j].base_time = Par1Of(agg, agg[i])[1].elapsed_mean
             ELSE IF SeqOf(agg, agg[i]) # <<>>
             THEN sp[j].base_time = SeqOf(agg, agg[i])[1].elapsed_mean
             ELSE /\ sp[j].base_time = NaN
                  /\ sp[j].speedup = NaN
                  /\ sp[j].efficiency = NaN

\* Both a parallel group at thread count 1 and a sequential group exist, with
\* different means, and a further row was joined against the parallel one.
C1_Witness ==
  /\ Derived
  /\ \E i \in 1..Len(sp) :
       /\ Par1Of(agg, sp[i]) # <<>>
       /\ SeqOf(agg, sp[i]) # <<>>
       /\ IsFinite(SeqOf(agg, sp[i])[1].elapsed_mean)
       /\ IsFinite(Par1Of(agg, sp[i])[1].elapsed_mean)
       /\ SeqOf(agg, sp[i])[1].elapsed_mean # Par1Of(agg, sp[i])[1].elapsed_mean
       /\ sp[i].t_effective # One
       /\ sp[i].base_time = Par1Of(agg, sp[i])[1].elapsed_mean

\* C2: the runs column of every group equals the number of loaded records with
\* exactly that (image, radius, engine, thread_count), and every key of the
\* input has exactly one group.
C2_RunCounts ==
  Aggregated =>
    /\ \A i \in 1..Len(agg) :
         agg[i].runs = Cardinality({ j \in 1..Len(df) : Key4(df[j]) = Key4(agg[i]) })
    /\ \A j \in 1..Len(df) :
         Cardinality({ i \in 1..Len(agg) : Key4(agg[i]) = Key4(df[j]) }) = 1

\* Two groups, one of them holding several runs, one of which lacks elapsed_s.
C2_Witness ==
  /\ Aggregated
  /\ Len(agg) >= 2
  /\ \E i \in 1..Len(agg) :
       /\ agg[i].runs >= 2
       /\ \E j \in 1..Len(df) : Key4(df[j]) = Key4(agg[i]) /\ df[j].elapsed_s = NaN

\* C3: a group of exactly one run has standard deviation 0 and ci95 0, for
\* elapsed time and for memory.
C3_SingleRunStdZero ==
  Aggregated =>
    \A i \in 1..Len(agg) :
      agg[i].runs = 1 =>
        /\ agg[i].elapsed_std = Zero
        /\ agg[i].elapsed_ci95 = Zero
        /\ agg[i].rss_kb_std = Zero
        /\ agg[i].rss_kb_ci95 = Zero

\* The row of sp that is the selected baseline of its (image, radius).
IsSelectedBaseline(a, r) ==
  \/ (r.app = "blur_par" /\ r.t_effective = One)
  \/ (r.app = "blur" /\ Par1Of(a, r) = <<>>)

\* C4 as stated: the selected baseline row always has speedup 1.0 and
\* efficiency 1.0.
C4_BaselineIsOne ==
  Derived =>
    \A i \in 1..Len(sp) :
      IsSelectedBaseline(agg, sp[i]) => sp[i].speedup = One /\ sp[i].efficiency = One

\* C4 amended: the selected baseline row has speedup 1.0 and efficiency 1.0
\* when its elapsed_mean is present, finite and not zero.
C4_BaselineIsOneWhenTimed ==
  Derived =>
    \A i \in 1..Len(agg) :
      (/\ IsSelectedBaseline(agg, agg[i])
       /\ IsFinite(agg[i].elapsed_mean)
       /\ agg[i].elapsed_mean # Zero) =>
        /\ \E j \in 1..Len(sp) : Key4(sp[j]) = Key4(agg[i])
        /\ \A j \in 1..Len(sp) :
             Key4(sp[j]) = Key4(agg[i]) => sp[j].speedup = One /\ sp[j].efficiency = One

\* A timed parallel baseline was selected although a sequential group with
\* another mean exists.
C4_Witness ==
  /\ Derived
  /\ \E i \in 1..Len(sp) :
       /\ sp[i].app = "blur_par" /\ sp[i].t_effective = One
       /\ IsFinite(sp[i].elapsed_mean) /\ sp[i].elapsed_mean # Zero
       /\ SeqOf(agg, sp[i]) # <<>>
       /\ IsFinite(SeqOf(agg, sp[i])[1].elapsed_mean)
       /\ SeqOf(agg, sp[i])[1].elapsed_mean # sp[i].elapsed_mean
       /\ sp[i].speedup = One

AggColumns == {"image", "radius", "app", "app_label", "t_effective", "runs",
               "elapsed_mean", "elapsed_std", "rss_kb_mean", "rss_kb_std",
               "elapsed_ci95", "rss_kb_ci95"}

HasBaseline(a, r) == Par1Of(a, r) # <<>> \/ SeqOf(a, r) # <<>>

\* C5: the derived table has exactly one row per aggregate row, in order and
\* with the aggregate columns unchanged; a row without a qualifying baseline
\* is returned with null speedup and efficiency.
C5_OneToOne ==
  Derived =>
    /\ Len(sp) = Len(agg)
    /\ \A i \in 1..Len(agg) :
         /\ \A c \in AggColumns : sp[i][c] = agg[i][c]
         /\ ~HasBaseline(agg, agg[i]) => sp[i].speedup = NaN /\ sp[i].efficiency = NaN

\* A row without a baseline was returned beside a row that has one.
C5_Witness ==
  /\ Derived
  /\ \E i, j \in 1..Len(sp) :
       /\ ~HasBaseline(agg, sp[i]) /\ sp[i].speedup = NaN
       /\ HasBaseline(agg, sp[j])

ParOf(a, k) ==
  SelectSeq(a, LAMBDA q : q.image = k[1] /\ q.radius = k[2] /\ q.app = "blur_par")

\* C6: for every (image, radius) of the aggregate table write_summary reports
\* the parallel record with the smallest elapsed_mean, or, without a parallel
\* record, the baseline with best_threads = 1 and speedup = 1.0.
C6_BestConfiguration ==
  Derived =>
    \A k \in SummaryKeys(agg) :
      \E n \in 1..Len(summary.rows) :
        /\ summary.rows[n].image = k[1]
        /\ summary.rows[n].radius = ToInt(k[2])
        /\ IF ParOf(agg, k) # <<>>
           THEN \E p \in 1..Len(ParOf(agg, k)) :
                  /\ \A q \in 1..Len(ParOf(agg, k)) :
                       ~FLess(ParOf(agg, k)[q].elapsed_mean, ParOf(agg, k)[p].elapsed_mean)
                  /\ IsFinite(ParOf(agg, k)[p].t_effective)
                  /\ summary.rows[n].best_threads = ToInt(ParOf(agg, k)[p].t_effective)
                  /\ summary.rows[n].best_time_s = Round6(ParOf(agg, k)[p].elapsed_mean)
           ELSE /\ summary.rows[n].best_threads = 1
                /\ summary.rows[n].best_speedup_x = One

\* C7: with zero run records the pipeline fails before any aggregate table is
\* produced or written.
C7_EmptyInputFails ==
  Len(csv.rows) = 0 => ~Aggregated /\ ~agg_csv.exists

\* C8: the hotspot listing of write_profile_summary is sorted descending by
\* cost percent, ties broken by cost count descending.
C8_HotspotsSorted ==
  pc = "done" =>
    \A i \in 1..(Len(profile.rows) - 1) :
      (profile.rows[i].kind = "row" /\ profile.rows[i + 1].kind = "row") =>
        \/ profile.rows[i].percent > profile.rows[i + 1].percent
        \/ /\ profile.rows[i].percent = profile.rows[i + 1].percent
           /\ profile.rows[i].cost >= profile.rows[i + 1].cost

\* C9: the baseline write_summary reports for an (image, radius) is the group
\* build_speedup_and_efficiency selected for it: baseline_time_s is the
\* base_time of its rows, and baseline_prog is the parallel label when both a
\* parallel group at thread count 1 and a sequential group exist.
C9_SummaryBaselineIsSelected ==
  Summarized =>
    \A n \in 1..Len(summary.rows) :
      \A i \in 1..Len(sp) :
        (sp[i].image = summary.rows[n].image
         /\ IsFinite(sp[i].radius)
         /\ ToInt(sp[i].radius) = summary.rows[n].radius) =>
          /\ summary.rows[n].baseline_time_s = Round6(sp[i].base_time)
          /\ (Par1Of(agg, sp[i]) # <<>> /\ SeqOf(agg, sp[i]) # <<>>) =>
               summary.rows[n].baseline_prog = "parallel (blur_par)"

NumericColumns == {"threads", "rep", "radius", "max_rss_kb", "elapsed_s"}

RECURSIVE SumRuns(_)
SumRuns(a) == IF a = <<>> THEN 0 ELSE Head(a).runs + SumRuns(Tail(a))

\* C10: load_runs returns one record per input row, an unparsable numeric cell
\* becoming a missing field, and aggregate counts every row in exactly one
\* group: the runs of all groups sum to the number of input rows.
C10_NoRowDropped ==
  /\ (pc = "loaded" \/ Aggregated) =>
       /\ Len(df) = Len(csv.rows)
       /\ \A i \in 1..Len(df) : \A c \in NumericColumns :
            csv.rows[i][c] = "x" => df[i][c] = NaN
  /\ Aggregated =>
       /\ SumRuns(agg) = Len(csv.rows)
       /\ \A j \in 1..Len(df) :
            Cardinality({ i \in 1..Len(agg) : Key(agg[i]) = Key(df[j]) }) = 1

\* Rows with an unparsable radius, thread count and elapsed time were
\* aggregated.
C10_Witness ==
  /\ Aggregated
  /\ \E i \in 1..Len(csv.rows) : csv.rows[i].radius = "x"
  /\ \E i \in 1..Len(csv.rows) : csv.rows[i].threads = "x" /\ df[i].t_effective = NaN
  /\ \E i \in 1..Len(csv.rows) : csv.rows[i].elapsed_s = "x" \/ csv.rows[i].rep = "x"
  /\ SumRuns(agg) = Len(csv.rows)
====
